---- MODULE Spec2Model ----
(***************************************************************************)
(* Model of funzo: the MDP contract (models/mdp.py) and the MAP-BIRL       *)
(* estimator (irl/birl/map_birl.py).                                       *)
(*                                                                         *)
(* Numbers.  numpy floats are modelled as exact rationals <<n, d>> in      *)
(* lowest terms with d > 0, plus the three IEEE specials the code can      *)
(* produce when it divides by a zero sum: <<1,0>> = +inf, <<-1,0>> = -inf, *)
(* <<0,0>> = nan.  Rounding is not modelled.                               *)
(*                                                                         *)
(* Arrays.  A numpy array is [shape |-> <<...>>, data |-> flat sequence].  *)
(* A python object that can be shared between the caller and a reward      *)
(* function is modelled by the holder's value plus an alias flag.          *)
(***************************************************************************)
EXTENDS Integers, Sequences, FiniteSets, TLC

VARIABLES
    buf,        \* the caller's payload object: [kind, arr]
    rf,         \* the reward function object: [kind, P, alias, nS]; P is _R or
                \* _weights, alias says P is the caller's own array
    last,       \* the last operation on the reward function and its outcome
    mdps,       \* the MDP objects that exist: slot -> [exists, discount]
    lastMdp,    \* the last operation on an MDP and its outcome
    classDict,  \* member names declared on the Linear reward subclass
    lenResult,  \* what len(reward) last returned (-1: not called yet)
    birl        \* the MAPBIRL object and the optimizer run in progress

vars == <<buf, rf, last, mdps, lastMdp, classDict, lenResult, birl>>

---------------------------------------------------------------------------
(* Bounds of the model *)

\* longest array axis (number of states |S|, number of weights)
MaxLen == 2
\* number of MDP objects that can exist at once
MaxMdp == 2
\* largest number of element writes the caller makes into one payload
MaxWrites == 1

---------------------------------------------------------------------------
(* Float arithmetic *)

Abs(n) == IF n < 0 THEN -n ELSE n

Sign(n) == IF n < 0 THEN -1 ELSE IF n > 0 THEN 1 ELSE 0

RECURSIVE GCD(_, _)
GCD(a, b) == IF b = 0 THEN a ELSE GCD(b, a % b)

\* n/d as a float: lowest terms, positive denominator; x/0 is inf or nan
Frac(n, d) ==
    IF d = 0 THEN <<Sign(n), 0>>
    ELSE LET g == GCD(Abs(n), Abs(d))
         IN  <<(Sign(d) * n) \div g, Abs(d) \div g>>

NaN == <<0, 0>>
Zero == <<0, 1>>
IsNaN(x) == x = NaN
IsInf(x) == x[2] = 0 /\ x[1] # 0
IsFinite(x) == x[2] # 0

RAdd(x, y) ==
    IF IsNaN(x) \/ IsNaN(y) THEN NaN
    ELSE IF IsInf(x) /\ IsInf(y) THEN (IF x = y THEN x ELSE NaN)
    ELSE IF IsInf(x) THEN x
    ELSE IF IsInf(y) THEN y
    ELSE Frac(x[1] * y[2] + y[1] * x[2], x[2] * y[2])

RMul(x, y) ==
    IF IsNaN(x) \/ IsNaN(y) THEN NaN
    ELSE IF IsInf(x) \/ IsInf(y)
         THEN (IF x = Zero \/ y = Zero THEN NaN
               ELSE <<Sign(x[1]) * Sign(y[1]), 0>>)
    ELSE Frac(x[1] * y[1], x[2] * y[2])

RDiv(x, y) ==
    IF IsNaN(x) \/ IsNaN(y) THEN NaN
    ELSE IF IsInf(y) THEN (IF IsInf(x) THEN NaN ELSE Zero)
    ELSE IF IsInf(x) THEN (IF y[1] < 0 THEN <<-x[1], 0>> ELSE x)
    ELSE Frac(x[1] * y[2], x[2] * y[1])

\* x <= y; every comparison with nan is false
RLe(x, y) ==
    IF IsNaN(x) \/ IsNaN(y) THEN FALSE
    ELSE IF x = y THEN TRUE
    ELSE IF IsInf(x) THEN x[1] < 0
    ELSE IF IsInf(y) THEN y[1] > 0
    ELSE x[1] * y[2] <= y[1] * x[2]

RLt(x, y) == RLe(x, y) /\ x # y

RAbs(x) == <<Abs(x[1]), x[2]>>

RSign(x) == Sign(x[1])

---------------------------------------------------------------------------
(* numpy arrays *)

RECURSIVE Prod(_)
Prod(s) == IF s = <<>> THEN 1 ELSE Head(s) * Prod(Tail(s))

RECURSIVE SumSeq(_)
SumSeq(s) == IF s = <<>> THEN Zero ELSE RAdd(Head(s), SumSeq(Tail(s)))

\* np.sum(a)
NpSum(a) == SumSeq(a.data)

\* np.zeros(n)
NpZeros(n) == [shape |-> <<n>>, data |-> [i \in 1..n |-> Zero]]

\* a.ndim
NDim(a) == Len(a.shape)

\* a /= x ; a *= y   (element-wise, in place)
DivScale(a, x, y) ==
    [a EXCEPT !.data = [i \in 1..Len(a.data) |-> RMul(RDiv(a.data[i], x), y)]]

---------------------------------------------------------------------------
(* Reward functions: RewardFunction, TabularRewardFunction,                *)
(* LinearRewardFunction                                                    *)

\* RewardFunction.__init__'s default rmax=1.0; neither subclass passes another
RMax == <<1, 1>>

\* entries a caller puts into a payload
Vals == {-1, 0, 2}

\* shapes of the payloads a caller builds
Shapes == {<<n>> : n \in 1..MaxLen} \cup {<<1, 1>>}

Payloads ==
    UNION {{[shape |-> sh, data |-> d] :
                d \in [1..Prod(sh) -> {Frac(v, 1) : v \in Vals}]} : sh \in Shapes}

\* np.asarray(x): the array itself when x is an ndarray, a new array holding
\* the same entries when x is a list
AsArray(obj) == obj.arr

\* whether np.asarray(x) is the caller's own object
Shares(obj) == obj.kind = "ndarray"

NoRF == [kind |-> "none", P |-> NpZeros(0), alias |-> FALSE, nS |-> 0]

NoOp == [op |-> "none", err |-> "", has |-> FALSE, rsa |-> FALSE,
         nS |-> 0, nA |-> 0]

\* np.zeros(n, m): the second positional parameter of np.zeros is the dtype,
\* and an integer is not a dtype
NpZerosDtype(n, m) == [err |-> "TypeError", arr |-> NpZeros(0)]

\* TabularRewardFunction.__len__
TabLen(f) == f.nS

\* the table TabularRewardFunction.__init__ builds
TabInitR(nS, nA, rsa) ==
    IF rsa THEN NpZerosDtype(nS, nA)
    ELSE [err |-> "", arr |-> NpZeros(nS)]

ShapeOKBySize(r, P) == Len(r.data) = Len(P.data)

\* the assertion of both update_parameters: r.shape == stored.shape
ShapeOK(r, P) == r.shape = P.shape

TabNewRNormalized(r) == DivScale(r, NpSum(r), RMax)

\* what TabularRewardFunction.update_parameters stores: self._R = r
TabNewR(r) == r

NormalizeNoDiv(w, rmax) ==
    [w EXCEPT !.data = [i \in 1..Len(w.data) |-> RMul(w.data[i], rmax)]]

NormalizeClip(w, rmax) ==
    [w EXCEPT !.data = [i \in 1..Len(w.data) |->
        IF RLt(rmax, w.data[i]) THEN rmax
        ELSE IF RLt(w.data[i], RMul(Frac(-1, 1), rmax)) THEN RMul(Frac(-1, 1), rmax)
        ELSE w.data[i]]]

\* w /= np.sum(w); w *= self.rmax
Normalize(w, rmax) == DivScale(w, NpSum(w), rmax)

\* the caller builds a new payload object; an array it shared stays with
\* the reward function alone
CallerMake(kind, arr) ==
    /\ buf' = [kind |-> kind, arr |-> arr, writes |-> 0]
    /\ rf' = [rf EXCEPT !.alias = FALSE]
    /\ last' = [NoOp EXCEPT !.op = "CallerMake"]
    /\ UNCHANGED <<mdps, lastMdp, classDict, lenResult, birl>>

\* the caller assigns r[i] = v in the payload it holds; when the reward
\* function stored np.asarray(r) of an ndarray r, the stored parameters are
\* that same array
CallerWrite(i, v) ==
    /\ buf.writes < MaxWrites
    /\ i \in 1..Len(buf.arr.data)
    /\ buf' = [buf EXCEPT !.arr.data[i] = Frac(v, 1), !.writes = @ + 1]
    /\ rf' = IF rf.alias THEN [rf EXCEPT !.P = buf'.arr] ELSE rf
    /\ last' = [NoOp EXCEPT !.op = "CallerWrite"]
    /\ UNCHANGED <<mdps, lastMdp, classDict, lenResult, birl>>

\* TabularRewardFunction(domain, rsa) for a domain of nS states, nA actions
TabInit(nS, nA, rsa) ==
    LET z == TabInitR(nS, nA, rsa)
        op == [NoOp EXCEPT !.op = "TabInit", !.rsa = rsa, !.nS = nS, !.nA = nA]
    IN  /\ IF z.err # ""
           THEN /\ rf' = rf
                /\ last' = [op EXCEPT !.err = z.err]
           ELSE /\ rf' = [kind |-> "tabular", P |-> z.arr, alias |-> FALSE,
                          nS |-> nS]
                /\ last' = op
        /\ UNCHANGED <<buf, mdps, lastMdp, classDict, lenResult, birl>>

\* TabularRewardFunction.update_parameters(reward=buf), or with no reward
TabUpdate(has) ==
    LET r == AsArray(buf)
        op == [NoOp EXCEPT !.op = "TabUpdate", !.has = has]
    IN  /\ rf.kind = "tabular"
        /\ IF ~has
           THEN rf' = rf /\ last' = op
           ELSE IF ~ShapeOK(r, rf.P)
           THEN rf' = rf /\ last' = [op EXCEPT !.err = "AssertionError"]
           ELSE /\ rf' = [rf EXCEPT !.P = TabNewR(r), !.alias = Shares(buf)]
                /\ last' = op
        /\ UNCHANGED <<buf, mdps, lastMdp, classDict, lenResult, birl>>

\* LinearRewardFunction(domain, weights=buf); the class keeps the domain and
\* never reads it
LinInit ==
    LET w == AsArray(buf)
        n == Normalize(w, RMax)
        op == [NoOp EXCEPT !.op = "LinInit", !.has = TRUE]
    IN  IF NDim(w) # 1
        THEN /\ rf' = rf
             /\ last' = [op EXCEPT !.err = "AssertionError"]
             /\ UNCHANGED <<buf, mdps, lastMdp, classDict, lenResult, birl>>
        ELSE /\ rf' = [kind |-> "linear", P |-> n, alias |-> Shares(buf), nS |-> 0]
             /\ buf' = IF Shares(buf) THEN [buf EXCEPT !.arr = n] ELSE buf
             /\ last' = op
             /\ UNCHANGED <<mdps, lastMdp, classDict, lenResult, birl>>

\* LinearRewardFunction.update_parameters(reward=buf), or with no reward
LinUpdate(has) ==
    LET w == AsArray(buf)
        n == Normalize(w, RMax)
        op == [NoOp EXCEPT !.op = "LinUpdate", !.has = has]
    IN  /\ rf.kind = "linear"
        /\ IF ~has
           THEN rf' = rf /\ buf' = buf /\ last' = op
           ELSE IF ~ShapeOK(w, rf.P)
           THEN rf' = rf /\ buf' = buf /\ last' = [op EXCEPT !.err = "AssertionError"]
           ELSE /\ rf' = [rf EXCEPT !.P = n, !.alias = Shares(buf)]
                /\ buf' = IF Shares(buf) THEN [buf EXCEPT !.arr = n] ELSE buf
                /\ last' = op
        /\ UNCHANGED <<mdps, lastMdp, classDict, lenResult, birl>>

---------------------------------------------------------------------------
(* MDP: the discount factor *)

\* discounts a caller passes, as floats: -1/2, 0, 1/2, 9/10, 1, 3/2, nan
GammaVals == {Frac(-1, 2), Zero, Frac(1, 2), Frac(9, 10), Frac(1, 1),
              Frac(3, 2), NaN}

NoMdp == [exists |-> FALSE, discount |-> NaN]

NoMdpOp == [op |-> "none", slot |-> 0, value |-> NaN, err |-> "", pre |-> NoMdp]

GammaValidClosed(value) == RLe(Zero, value) /\ RLe(value, Frac(1, 1))

\* the gamma setter's assertion: 0.0 <= value < 1.0
GammaValid(value) == RLe(Zero, value) /\ RLt(value, Frac(1, 1))

\* MDP(discount, reward, transition) into a free slot: __init__ assigns
\* self.gamma first, so a failing setter leaves no object behind
MDPInit(i, discount) ==
    LET op == [NoMdpOp EXCEPT !.op = "MDPInit", !.slot = i, !.value = discount,
                              !.pre = mdps[i]]
    IN  /\ ~mdps[i].exists
        /\ IF GammaValid(discount)
           THEN /\ mdps' = [mdps EXCEPT ![i] = [exists |-> TRUE, discount |-> discount]]
                /\ lastMdp' = op
           ELSE /\ mdps' = mdps
                /\ lastMdp' = [op EXCEPT !.err = "AssertionError"]
        /\ UNCHANGED <<buf, rf, last, classDict, lenResult, birl>>

\* mdp.gamma = value
GammaSet(i, value) ==
    LET op == [NoMdpOp EXCEPT !.op = "GammaSet", !.slot = i, !.value = value,
                              !.pre = mdps[i]]
    IN  /\ mdps[i].exists
        /\ IF GammaValid(value)
           THEN /\ mdps' = [mdps EXCEPT ![i].discount = value]
                /\ lastMdp' = op
           ELSE /\ mdps' = mdps
                /\ lastMdp' = [op EXCEPT !.err = "AssertionError"]
        /\ UNCHANGED <<buf, rf, last, classDict, lenResult, birl>>

---------------------------------------------------------------------------
(* LinearRewardFunction.__len__ *)

\* '_feature_'
Template == <<"_", "f", "e", "a", "t", "u", "r", "e", "_">>

\* member names a subclass of LinearRewardFunction may declare
Names == {Template \o <<"a">>, Template \o <<"b">>, Template \o <<"c">>,
          Template,
          <<"_", "_", "c", "a", "l", "l", "_", "_">>,
          <<"_", "_", "d", "o", "c", "_", "_">>,
          <<"f", "e", "a", "t", "u", "r", "e", "_", "d">>}

\* str.startswith
StartsWith(s, prefix) ==
    /\ Len(s) >= Len(prefix)
    /\ SubSeq(s, 1, Len(prefix)) = prefix

\* f[0]: the first character of a non-empty string, as a string
FirstChar(f) == <<f[1]>>

\* sum([f[0].startswith(self._template) for f in self.__class__.__dict__])
LinLen(dict) == Cardinality({f \in dict : StartsWith(FirstChar(f), Template)})

\* a subclass of LinearRewardFunction is declared with these members
DeclareClass(dict) ==
    /\ classDict' = dict
    /\ lenResult' = -1
    /\ UNCHANGED <<buf, rf, last, mdps, lastMdp, birl>>

\* len(reward) on an instance of the declared class
CallLen ==
    /\ lenResult' = LinLen(classDict)
    /\ UNCHANGED <<buf, rf, last, mdps, lastMdp, classDict, birl>>

---------------------------------------------------------------------------
(* MAPBIRL.  The objective is kept as exp(value), which is an exact float  *)
(* when beta is a multiple of ln 2: exp(beta*Q) is then a power of two,    *)
(* exp(-logsumexp(d)) the reciprocal of a sum of powers of two, and the    *)
(* sum of log-densities the log of a product of densities.  Comparing two  *)
(* objective values is comparing their exponentials.                       *)

\* the optimizer's own iteration cap (L-BFGS-B's default maxiter), scaled down
OptMaxIter == 2

\* max_iter values a caller constructs MAPBIRL with
MaxIterArgs == {1, 2}

\* beta, in units of ln 2
Betas == {1}

\* action values a planner returns
QVals == {0, 1}

\* len(self._mdp.reward)
RewardLen(f, dict) == IF f.kind = "tabular" THEN TabLen(f) ELSE LinLen(dict)

\* candidate vectors the optimizer tries: the corners of
\* bounds = ((-rmax, rmax),) * len(reward)
Grid == {RMul(Frac(-1, 1), RMax), RMax}

Box(n) == {[shape |-> <<n>>, data |-> d] : d \in [1..n -> Grid]}

\* demonstrations: sequences of trajectories of <<state, action>>
DemoSets == {<< << <<1, 2>> >>, << <<2, 2>>, <<1, 1>> >> >>}

\* what mdp.actions(s) may return for each state: a set of actions that
\* holds every action demonstrated at s
ActionSets(nS, nA, demos) ==
    {f \in [1..nS -> SUBSET (1..nA)] :
        \A t \in 1..Len(demos) : \A k \in 1..Len(demos[t]) :
            demos[t][k][2] \in f[demos[t][k][1]]}

\* the prior's density at one reward parameter
Density(prior, v) ==
    IF prior = "uniform" THEN Frac(1, 2)
    ELSE IF RLt(v, Zero) THEN Frac(1, 4) ELSE Frac(3, 4)

RECURSIVE ProdSeq(_)
ProdSeq(s) == IF s = <<>> THEN RMax ELSE RMul(Head(s), ProdSeq(Tail(s)))

\* exp(np.sum(self._prior.log_p(r)))
ExpLogPrior(prior, r) ==
    ProdSeq([i \in 1..Len(r.data) |-> Density(prior, r.data[i])])

RECURSIVE Pow2(_)
Pow2(k) == IF k <= 0 THEN 1 ELSE 2 * Pow2(k - 1)

\* exp(logsumexp(d)) for d = [beta * Q_r[b, s] for b in self._mdp.A]
ExpLogSumExp(Qr, beta, s, nA) ==
    SumSeq([b \in 1..nA |-> Frac(Pow2(beta * Qr[b][s]), 1)])

\* exp((beta * Q_r[a, s]) - den)
ExpTerm(Qr, beta, s, a, nA) ==
    RDiv(Frac(Pow2(beta * Qr[a][s]), 1), ExpLogSumExp(Qr, beta, s, nA))

\* exp of the inner loop's contribution: for (s, a) in traj
ExpTraj(Qr, beta, traj, nA) ==
    ProdSeq([k \in 1..Len(traj) |-> ExpTerm(Qr, beta, traj[k][1], traj[k][2], nA)])

\* exp(data_llk)
ExpLogLikelihood(Qr, beta, demos, nA) ==
    ProdSeq([t \in 1..Len(demos) |-> ExpTraj(Qr, beta, demos[t], nA)])

NoEval == [done |-> FALSE, saw |-> NpZeros(0), Q |-> <<>>, llk |-> Zero,
           val |-> Zero]

NoBirl == [pc |-> "new", max_iter |-> 0, prior |-> "uniform", beta |-> 0,
           demos |-> <<>>, nS |-> 0, nA |-> 0, avail |-> <<>>,
           iter |-> 0, nit |-> 0, started |-> FALSE, xk |-> NpZeros(0),
           attr |-> NpZeros(0), plans |-> {}, evals |-> <<>>,
           x |-> NpZeros(0), exhaustive |-> FALSE]

\* MAPBIRL(mdp, prior, demos, planner, beta, max_iter=...) for an mdp of
\* nS states and nA actions whose reward function is rf and whose
\* actions(s) is avail[s]
BirlInit(nS, nA, avail, prior, demos, beta, max_iter) ==
    /\ birl.pc = "new"
    /\ rf.kind # "none"
    /\ rf.kind = "tabular" => rf.nS = nS
    /\ birl' = [NoBirl EXCEPT !.pc = "idle", !.max_iter = max_iter,
                              !.prior = prior, !.beta = beta, !.demos = demos,
                              !.nS = nS, !.nA = nA, !.avail = avail]
    /\ UNCHANGED <<buf, rf, last, mdps, lastMdp, classDict, lenResult>>

\* run(), up to the call of sp.optimize.minimize
BirlRun ==
    /\ birl.pc = "idle"
    /\ birl' = [birl EXCEPT !.pc = "running", !.iter = 1,
                  !.evals = [c \in Box(RewardLen(rf, classDict)) |-> NoEval]]
    /\ UNCHANGED <<buf, rf, last, mdps, lastMdp, classDict, lenResult>>

\* the optimizer calls fun(r): _reward_log_posterior(r), and in it
\* _reward_log_likelihood(r).  The planner is a function of the reward
\* parameters it reads: its answer for parameters it has seen is kept.
\* The first point evaluated is x0, the first iterate.
Evaluate(r, Qr) ==
    LET saw == rf.P
        known == {p \in birl.plans : p[1] = saw}
        lk == ExpLogLikelihood(Qr, birl.beta, birl.demos, birl.nA)
        pr == ExpLogPrior(birl.prior, r)
    IN  /\ birl.pc = "running"
        /\ ~birl.evals[r].done
        /\ known # {} => <<saw, Qr>> \in known
        /\ birl' = [birl EXCEPT
                      !.attr = r,
                      !.plans = @ \cup {<<saw, Qr>>},
                      !.iter = @ + 1,
                      !.started = TRUE,
                      !.xk = IF birl.started THEN @ ELSE r,
                      !.evals[r] = [done |-> TRUE, saw |-> saw, Q |-> Qr,
                                    llk |-> lk, val |-> RMul(lk, pr)]]
        /\ UNCHANGED <<buf, rf, last, mdps, lastMdp, classDict, lenResult>>

Evaluated == {c \in DOMAIN birl.evals : birl.evals[c].done}

\* the optimizer ends an outer iteration: it moves to an evaluated point of
\* strictly lower fun and calls callback(xk).  No maxiter option is passed
\* to minimize, so its own cap is the one that applies.
OptIterEnd(c) ==
    /\ birl.pc = "running"
    /\ birl.started
    /\ c \in Evaluated
    /\ RLt(birl.evals[c].val, birl.evals[birl.xk].val)
    /\ birl.nit < OptMaxIter
    /\ birl' = [birl EXCEPT !.nit = @ + 1, !.xk = c]
    /\ UNCHANGED <<buf, rf, last, mdps, lastMdp, classDict, lenResult>>

\* the optimizer stops at its cap, or when no point it evaluated is lower
OptStops ==
    IF birl.nit >= OptMaxIter THEN TRUE
    ELSE \A c \in Evaluated : RLe(birl.evals[birl.xk].val, birl.evals[c].val)

\* minimize returns its last iterate; run returns res.x
OptFinish ==
    /\ birl.pc = "running"
    /\ birl.started
    /\ OptStops
    /\ birl' = [birl EXCEPT
                  !.pc = "done", !.x = birl.xk,
                  !.exhaustive =
                      /\ Evaluated = DOMAIN birl.evals
                      /\ \A c \in Evaluated :
                            RLe(birl.evals[birl.xk].val, birl.evals[c].val)]
    /\ UNCHANGED <<buf, rf, last, mdps, lastMdp, classDict, lenResult>>

---------------------------------------------------------------------------
(* Specifications *)

NoBuf == [kind |-> "list", arr |-> [shape |-> <<1>>, data |-> <<RMax>>],
          writes |-> 0]

Init ==
    /\ buf = NoBuf
    /\ rf = NoRF
    /\ last = NoOp
    /\ mdps = [i \in 1..MaxMdp |-> NoMdp]
    /\ lastMdp = NoMdpOp
    /\ classDict = {}
    /\ lenResult = -1
    /\ birl = NoBirl

\* the caller and the reward functions
Next ==
    \/ \E kind \in {"list", "ndarray"}, arr \in Payloads : CallerMake(kind, arr)
    \/ \E nS \in 1..MaxLen, nA \in 1..MaxLen, rsa \in BOOLEAN : TabInit(nS, nA, rsa)
    \/ \E has \in BOOLEAN : TabUpdate(has)
    \/ LinInit
    \/ \E has \in BOOLEAN : LinUpdate(has)

Spec == Init /\ [][Next]_vars

\* the reward functions and a caller that keeps writing into its payload
NextOwn ==
    \/ Next
    \/ \E i \in 1..MaxLen, v \in Vals : CallerWrite(i, v)

SpecOwn == Init /\ [][NextOwn]_vars

\* MDP objects and their discount
NextMDP ==
    \/ \E i \in 1..MaxMdp, d \in GammaVals : MDPInit(i, d)
    \/ \E i \in 1..MaxMdp, d \in GammaVals : GammaSet(i, d)

SpecMDP == Init /\ [][NextMDP]_vars

\* the declared features and the reported length
InitLen ==
    /\ buf = NoBuf
    /\ rf = NoRF
    /\ last = NoOp
    /\ mdps = [i \in 1..MaxMdp |-> NoMdp]
    /\ lastMdp = NoMdpOp
    /\ classDict \in SUBSET Names
    /\ lenResult = -1
    /\ birl = NoBirl

NextLen ==
    \/ \E d \in SUBSET Names : DeclareClass(d)
    \/ CallLen

SpecLen == InitLen /\ [][NextLen]_vars

\* reward functions MAPBIRL is run on: a fresh table, an updated table,
\* a linear reward function of a class declaring two features
BirlRewards ==
    {[kind |-> "tabular", P |-> NpZeros(2), alias |-> FALSE, nS |-> 2],
     [kind |-> "tabular", P |-> [shape |-> <<2>>, data |-> <<RMul(Frac(-1, 1), RMax), RMax>>],
      alias |-> FALSE, nS |-> 2],
     [kind |-> "linear", P |-> [shape |-> <<2>>, data |-> <<Frac(1, 2), Frac(1, 2)>>],
      alias |-> FALSE, nS |-> 0]}

InitBirl ==
    /\ buf = NoBuf
    /\ rf \in BirlRewards
    /\ last = NoOp
    /\ mdps = [i \in 1..MaxMdp |-> NoMdp]
    /\ lastMdp = NoMdpOp
    /\ classDict = {Template \o <<"a">>, Template \o <<"b">>}
    /\ lenResult = -1
    /\ birl = NoBirl

NextBirl ==
    \/ \E prior \in {"uniform", "peaked"}, demos \in DemoSets, beta \in Betas,
          m \in MaxIterArgs :
              \E avail \in ActionSets(2, 2, demos) :
                  BirlInit(2, 2, avail, prior, demos, beta, m)
    \/ BirlRun
    \/ \E r \in DOMAIN birl.evals, Qr \in [1..birl.nA -> [1..birl.nS -> QVals]] :
          Evaluate(r, Qr)
    \/ \E c \in DOMAIN birl.evals : OptIterEnd(c)
    \/ OptFinish

SpecBirl == InitBirl /\ [][NextBirl]_vars

---------------------------------------------------------------------------
(* Properties *)

Updates == {"TabUpdate", "LinUpdate"}

AllFinite(a) == \A i \in 1..Len(a.data) : IsFinite(a.data[i])

NonNegative(a) == \A i \in 1..Len(a.data) : RLe(Zero, a.data[i])

FiniteNonZero(x) == IsFinite(x) /\ x # Zero

BoundedBy(a, m) == \A i \in 1..Len(a.data) : RLe(RAbs(a.data[i]), m)

\* w = c * r for some c > 0, said without c: the entries are in proportion
\* and have the same signs
SameDirection(r, w) ==
    /\ w.shape = r.shape
    /\ \A i, j \in 1..Len(r.data) :
          RMul(w.data[i], r.data[j]) = RMul(w.data[j], r.data[i])
    /\ \A i \in 1..Len(r.data) : RSign(w.data[i]) = RSign(r.data[i])

InUnitInterval(x) == RLe(Zero, x) /\ RLt(x, Frac(1, 1))

\* what update_parameters(reward=r) would store for candidate r
Installed(kind, r) == IF kind = "tabular" THEN r ELSE DivScale(r, NpSum(r), RMax)

\* C1: in every log-likelihood evaluation the planner reads the reward
\* parameters derived from the candidate r, so evaluations of different
\* candidates read different parameters.
C1_PlannerSeesCandidate ==
    /\ \A c \in Evaluated : birl.evals[c].saw = Installed(rf.kind, c)
    /\ \A c, d \in Evaluated :
          (rf.kind = "tabular" /\ c # d) => birl.evals[c].saw # birl.evals[d].saw

\* C2: when the optimizer has found the optimum of the function it was given
\* over the whole candidate set, the vector run returns has the largest
\* log-posterior: no candidate has a strictly larger one.
C2_RunReturnsMaximizer ==
    (birl.pc = "done" /\ birl.exhaustive) =>
        \A c \in DOMAIN birl.evals :
            RLe(birl.evals[c].val, birl.evals[birl.x].val)

\* C3: a construction or a gamma assignment with a value outside [0,1) fails
\* and leaves the stored discount as it was, and every MDP that exists has
\* its discount in [0,1).
C3_GammaInUnitInterval ==
    /\ \A i \in 1..MaxMdp : mdps[i].exists => InUnitInterval(mdps[i].discount)
    /\ (lastMdp.op \in {"MDPInit", "GammaSet"} /\ ~InUnitInterval(lastMdp.value)) =>
          /\ lastMdp.err = "AssertionError"
          /\ mdps[lastMdp.slot] = lastMdp.pre

\* C3 witness: an MDP with discount 9/10 was assigned gamma = 1, which failed
C3_Witness ==
    /\ lastMdp.op = "GammaSet"
    /\ lastMdp.value = Frac(1, 1)
    /\ lastMdp.err = "AssertionError"
    /\ mdps[lastMdp.slot] = [exists |-> TRUE, discount |-> Frac(9, 10)]

\* C4: update_parameters(reward=r) of either reward function with an r whose
\* shape differs from the stored array's fails, and the step changes neither
\* the reward function nor the payload.
C4_ShapeMismatchNoMutation ==
    [][(last'.op \in Updates /\ last'.has /\ buf.arr.shape # rf.P.shape) =>
          (last'.err = "AssertionError" /\ rf' = rf /\ buf' = buf)]_vars

\* C4 witness: a Linear reward function of two weights refused an ndarray
\* payload of one entry
C4_Witness ==
    /\ last.op = "LinUpdate" /\ last.has /\ last.err = "AssertionError"
    /\ rf.kind = "linear" /\ rf.P.shape = <<2>>
    /\ buf.kind = "ndarray" /\ buf.arr.shape = <<1>>

\* C5 as stated: after constructing a Linear reward function and after every
\* successful update, for any weight vector of non-zero sum, every stored
\* weight satisfies |w_i| <= rmax.
C5_BoundedAnyNonZeroSum ==
    [][(last'.op \in {"LinInit", "LinUpdate"} /\ last'.has /\ last'.err = ""
          /\ AllFinite(buf.arr) /\ FiniteNonZero(NpSum(buf.arr)))
        => BoundedBy(rf'.P, RMax)]_vars

\* C5 amended: after constructing a Linear reward function and after every
\* successful update, for any weight vector of finite non-negative entries
\* and non-zero sum, every stored weight satisfies |w_i| <= rmax.
C5_BoundedNonNegative ==
    [][(last'.op \in {"LinInit", "LinUpdate"} /\ last'.has /\ last'.err = ""
          /\ AllFinite(buf.arr) /\ NonNegative(buf.arr)
          /\ FiniteNonZero(NpSum(buf.arr)))
        => BoundedBy(rf'.P, RMax)]_vars

\* C5 witness: the list [2, 0] was installed and the stored weights are [1, 0]
C5_Witness ==
    /\ last.op = "LinUpdate" /\ last.has /\ last.err = ""
    /\ buf = [kind |-> "list",
              arr |-> [shape |-> <<2>>, data |-> <<Frac(2, 1), Zero>>],
              writes |-> 0]
    /\ rf.P.data = <<RMax, Zero>>

\* C6 as stated: update_parameters(reward=r) of a Linear reward function
\* with a shape-compatible r of non-zero sum stores c*r for some c > 0.
C6_DirectionAnyNonZeroSum ==
    [][(last'.op = "LinUpdate" /\ last'.has /\ buf.arr.shape = rf.P.shape
          /\ AllFinite(buf.arr) /\ FiniteNonZero(NpSum(buf.arr)))
        => (last'.err = "" /\ SameDirection(buf.arr, rf'.P))]_vars

\* C6 amended: update_parameters(reward=r) of a Linear reward function with
\* a shape-compatible r of finite entries and strictly positive sum stores
\* c*r for some c > 0.
C6_DirectionPositiveSum ==
    [][(last'.op = "LinUpdate" /\ last'.has /\ buf.arr.shape = rf.P.shape
          /\ AllFinite(buf.arr) /\ RLt(Zero, NpSum(buf.arr)))
        => (last'.err = "" /\ SameDirection(buf.arr, rf'.P))]_vars

\* C6 witness: the list [2, -1], of sum 1, was installed over other weights
\* and is stored as [2, -1]
C6_Witness ==
    /\ last.op = "LinUpdate" /\ last.has /\ last.err = ""
    /\ buf = [kind |-> "list",
              arr |-> [shape |-> <<2>>, data |-> <<Frac(2, 1), Frac(-1, 1)>>],
              writes |-> 0]
    /\ rf.P.data = <<Frac(2, 1), Frac(-1, 1)>>

\* C7: update_parameters(reward=r) of a Tabular reward function with a
\* shape-compatible r succeeds and the stored table then equals r, element
\* for element, whatever was stored before.
C7_TabularRoundTrip ==
    [][(last'.op = "TabUpdate" /\ last'.has /\ buf.arr.shape = rf.P.shape)
        => (last'.err = "" /\ rf'.P = buf.arr)]_vars

\* C7 witness: a table that is not the all-zero one equals the payload
\* just installed
C7_Witness ==
    /\ last.op = "TabUpdate" /\ last.has /\ last.err = ""
    /\ rf.kind = "tabular"
    /\ rf.P = buf.arr
    /\ rf.P.data = <<Frac(2, 1), Frac(-1, 1)>>

\* C8: the length a Linear reward function reports is the number of members
\* named '_feature_<x>' declared on its class.
C8_LenCountsFeatures ==
    lenResult # -1 =>
        lenResult = Cardinality({f \in classDict : StartsWith(f, Template)})

\* C9: a Tabular reward function constructed without rsa holds an all-zero
\* table of |S| entries and reports |S|; constructed with rsa=True the
\* construction succeeds, the table is all-zero of shape |S| x |A| and the
\* reported dimension is |S| * |A|.
C9_TabularConstruction ==
    last.op = "TabInit" =>
        /\ last.err = ""
        /\ rf.kind = "tabular"
        /\ \A i \in 1..Len(rf.P.data) : rf.P.data[i] = Zero
        /\ IF last.rsa
           THEN /\ rf.P.shape = <<last.nS, last.nA>>
                /\ Len(rf.P.data) = last.nS * last.nA
                /\ TabLen(rf) = last.nS * last.nA
           ELSE /\ rf.P.shape = <<last.nS>>
                /\ Len(rf.P.data) = last.nS
                /\ TabLen(rf) = last.nS

\* C10: in any run the optimizer performs at most max_iter outer iterations.
C10_MaxIterBoundsRun ==
    birl.pc \in {"running", "done"} => birl.nit <= birl.max_iter

\* exp of the normalizer over the actions available at s only
AvailableSumExp(Qr, beta, s, nA, avail) ==
    SumSeq([b \in 1..nA |->
              IF b \in avail[s] THEN Frac(Pow2(beta * Qr[b][s]), 1) ELSE Zero])

\* exp of the sum, over every occurrence of a pair (s, a) in every
\* trajectory, of beta*Q(a,s) - logsumexp over b in actions(s) of beta*Q(b,s)
AvailableLikelihood(Qr, beta, demos, nA, avail) ==
    ProdSeq([t \in 1..Len(demos) |->
        ProdSeq([k \in 1..Len(demos[t]) |->
            RDiv(Frac(Pow2(beta * Qr[demos[t][k][2]][demos[t][k][1]]), 1),
                 AvailableSumExp(Qr, beta, demos[t][k][1], nA, avail))])])

\* C11: the log-likelihood of a candidate is the sum, over every (s, a)
\* occurrence in every trajectory, of beta*Q(a,s) minus the log-sum-exp of
\* beta*Q(b,s) over exactly the actions b in actions(s), Q indexed
\* action-major: actions not available at s do not enter the normalizer.
C11_NormalizerOverAvailableActions ==
    \A c \in Evaluated :
        birl.evals[c].llk =
            AvailableLikelihood(birl.evals[c].Q, birl.beta, birl.demos,
                                birl.nA, birl.avail)

\* C12: update_parameters(reward=r) of a Tabular or Linear reward function
\* treats the caller's payload as read-only and keeps its own copy: a
\* successful call leaves r with the values it had, and a later write of
\* the caller into r leaves the stored parameters as they were.
C12_PayloadReadOnlyAndOwned ==
    [][/\ (last'.op \in Updates /\ last'.has /\ last'.err = "")
            => buf'.arr = buf.arr
       /\ (last.op \in Updates /\ last.has /\ last.err = ""
             /\ last'.op = "CallerWrite")
            => rf'.P = rf.P]_vars

====
